---- MODULE Spec2Model ----
(***************************************************************************)
(* A model of rustbininfo's compilation orchestration                      *)
(* (src/src/rustbininfo/compilation.py): the feature-degradation retry of  *)
(* CompilationUnit._cargo_build, the orchestration of compile_crate, the   *)
(* manifest patch of setup_toml, the source patch of                       *)
(* remove_no_std_from_project, the artifact walk of _get_result_files and  *)
(* the repository acquisition of _setup_repo.                              *)
(*                                                                         *)
(* Representation of the program's values:                                 *)
(*  - a feature list is a sequence of feature names (strings);             *)
(*  - a file or directory name is the sequence of its dot-separated        *)
(*    components: "a.exe" is <<"a","exe">>, ".fingerprint" is              *)
(*    <<"","fingerprint">>, "deps" is <<"deps">>;                          *)
(*  - a path below a project root is a sequence of names;                  *)
(*  - a manifest key is the sequence of its characters, so that the        *)
(*    backslash test and the backslash removal are computed;               *)
(*  - a source line is a sequence of tokens, whitespace tokens included,   *)
(*    so that strip() is computed;                                         *)
(*  - a manifest value is a record [t, n, tab]: t = "int" with the number  *)
(*    n, or t = "tab" with the nested table tab (a function on keys).      *)
(***************************************************************************)
EXTENDS Integers, Sequences, FiniteSets, TLC

VARIABLES
    pc,            \* position of the running call
    raisedAt,      \* where an exception left compile_crate ("" if none)
    crateFeatures, \* crate.features
    features,      \* the local `features` of compile_crate / the parameter of _cargo_build
    status,        \* status code the repository probe returns
    repoOnDisk,    \* a clone of the repository already exists at repo_path
    cloneOk,       \* Repo.clone_from succeeds
    repo_path,     \* result of _setup_repo: "None" or "repo"
    cloned,        \* number of clone attempts made
    ctxTemplate,   \* ctx.template (its nested tables are shared objects)
    ctxTemplate0,  \* ctx.template as it was when the call started
    ctxLib,        \* ctx.lib
    ctxProfile,    \* ctx.profile
    manifest,      \* Cargo.toml of each project tree, as a table
    srcs,          \* the source files of each project tree: path -> lines
    srcs0,         \* the source files as they were when the call started
    fs,            \* the files below each project root (set of paths)
    inCall,        \* a _cargo_build call is in progress (between its attempts)
    bfeat,         \* `features` of the innermost _cargo_build frame
    attempts,      \* the build-tool invocations of the current _cargo_build call
    ret,           \* the value the last _cargo_build call returned
    lastInv,       \* the last build-tool invocation (args, cwd, env)
    calls,         \* number of _cargo_build calls started, per phase
    invs,          \* number of build-tool invocations, per phase
    patched,       \* the setup_toml calls made: <<[tree, template]>>
    results,       \* `results` of compile_crate / return value of _get_result_files
    entry,         \* the function called from outside
    argTree,       \* the project tree a directly called function is applied to
    argTemplate,   \* the template object given to a directly called setup_toml
    ctxEnv,        \* ctx.env
    additional_env,\* the `additional_env` argument of _cargo_build
    argProfile,    \* the `profile` argument of _get_result_files ("None" if not given)
    tags,          \* tag names of the repository, in the order list_items yields them
    checkedOut     \* the tag _setup_repo checked out ("" if none)

vars == <<pc, raisedAt, crateFeatures, features, status, repoOnDisk, cloneOk,
          repo_path, cloned, ctxTemplate, ctxTemplate0, ctxLib, ctxProfile,
          manifest, srcs, srcs0, fs, inCall, bfeat, attempts, ret, lastInv, calls,
          invs, patched, results, entry, argTree, argTemplate, ctxEnv,
          additional_env, argProfile, tags, checkedOut>>

(***************************************************************************)
(* Bounds of the model.                                                    *)
(***************************************************************************)
MaxFeatures == 3       \* longest feature list given to a single _cargo_build call
MaxCrateFeatures == 2  \* longest crate.features given to compile_crate
MaxLines == 3          \* longest source file given to remove_no_std_from_project
MaxNested == 2         \* most keys of a nested manifest table
MaxDepth == 2          \* deepest directory below the output root holding the extra file
MaxTags == 2           \* most tags of the repository _setup_repo scans

(***************************************************************************)
(* Generic helpers.                                                        *)
(***************************************************************************)
SeqsUpTo(S, n) == UNION {[1..k -> S] : k \in 0..n}

Last(s) == s[Len(s)]

Trees == {"repo", "primary"}

Phases == {"tests", "benches", "examples", "primary"}

FeatureNames == {"full", "x", "y", "z", "nightly", "default"}

\* self.tc.toolchain_name and self.tc.version
Triple == "x86_64-pc-windows-gnu"
TcVersion == "1.70.0"

ExitCodes == {0, 101}

(***************************************************************************)
(* _cargo_build: the command line (lines 133-152).                         *)
(***************************************************************************)
\* "release" if self.ctx.profile == "release" else "dev"
ProfileArg(profile) == IF profile = "release" THEN "release" ELSE "dev"

\* the post_verb each caller passes (_compile_extra, _compile_lib)
PostVerb(phase, profile) ==
    CASE phase = "tests"    -> <<"--tests", "--profile", ProfileArg(profile)>>
      [] phase = "benches"  -> <<"--benches", "--profile", ProfileArg(profile)>>
      [] phase = "examples" -> <<"--examples", "--profile", ProfileArg(profile)>>
      [] OTHER              -> <<"--profile", ProfileArg(profile)>>

\* variant: every feature is passed on
FilterFeaturesNone(f) == f

\* filter(lambda f: f not in ["nightly", "default"], features)
FilterFeatures(f) == SelectSeq(f, LAMBDA e : e \notin {"nightly", "default"})

\* The argument vector.  featureArg is the list the comma-joined value of
\* --features names, in order; hasFeatures says whether --features is there.
BuildArgs(post_verb, f) ==
    [argv        |-> <<"cargo", "+" \o TcVersion, "build", "--target", Triple>> \o post_verb,
     hasFeatures |-> f # <<>>,
     featureArg  |-> IF f # <<>> THEN FilterFeatures(f) ELSE <<>>]

\* os.environ of the process, and the environments a context carries
OsEnviron == ("PATH" :> "/usr/bin") @@ ("RUSTFLAGS" :> "-g")

NoEnv == [k \in {} |-> ""]

EnvOverride == ("RUSTFLAGS" :> "-Copt-level=0") @@ ("CARGO_HOME" :> "/cargo")

EnvOther == ("RUSTFLAGS" :> "-Cdebuginfo=2")

\* for key, val in extra.items(): env[key] = val
SetAll(env, extra) ==
    [k \in DOMAIN env \cup DOMAIN extra |-> IF k \in DOMAIN extra THEN extra[k] ELSE env[k]]

\* lines 154-159: env = os.environ.copy(); if additional_env: the items of
\* self.ctx.env are copied into it.  None and {} are both falsy: NoEnv stands
\* for either.
BuildEnv(environ, additional, ctx_env) ==
    IF DOMAIN additional # {} THEN SetAll(environ, ctx_env) ELSE environ

\* variant: the retry keeps the whole list
RetryFeaturesSame(f) == f

\* features[1:], the list the retry is made with (lines 177-179)
RetryFeatures(f) == Tail(f)

\* variant: the exit code is not looked at
ShouldRetryAlways(rc, f) == f # <<>>

\* `if ret.returncode == 0: return` / `if features: return self._cargo_build(...)`
ShouldRetry(rc, f) == rc # 0 /\ f # <<>>

(***************************************************************************)
(* What the build tool leaves below the project root it runs in.           *)
(***************************************************************************)
PhaseTree(phase) == IF phase = "primary" THEN "primary" ELSE "repo"

ProfileDir(profile) == IF ProfileArg(profile) = "release" THEN <<"release">> ELSE <<"debug">>

OutRoot == << <<"target">>, <<Triple>> >>

LockFile(profile) == OutRoot \o <<ProfileDir(profile), <<"", "cargo-lock">>>>

BuildProducts(phase, profile) ==
    LET pd == OutRoot \o <<ProfileDir(profile)>> IN
    {LockFile(profile)} \cup
    CASE phase = "tests"    -> {pd \o << <<"deps">>, <<"unit-1a2b", "exe">> >>}
      [] phase = "benches"  -> {pd \o << <<"deps">>, <<"bench-3c4d", "exe">> >>}
      [] phase = "examples" -> {pd \o << <<"examples">>, <<"demo", "exe">> >>,
                                pd \o << <<"examples">>, <<"demo", "pdb">> >>}
      [] OTHER              -> {pd \o << <<"crate", "dll">> >>,
                                pd \o << <<"deps">>, <<"crate", "dll">> >>,
                                pd \o << <<"build">>, <<"crate-5e6f">>, <<"build-script-build", "exe">> >>}

\* a failing build may stop before or after it created its output directory
BuildLeftovers(profile) == {{}, {LockFile(profile)}}

(***************************************************************************)
(* _get_result_files: the glob and the pruned walk (lines 259-304).        *)
(***************************************************************************)
RECURSIVE SetToSeq(_)
\* the order in which a directory lists its entries: arbitrary but fixed
SetToSeq(S) ==
    IF S = {} THEN <<>>
    ELSE LET e == CHOOSE e \in S : TRUE IN <<e>> \o SetToSeq(S \ {e})

IsPrefix(d, p) == Len(d) <= Len(p) /\ SubSeq(p, 1, Len(d)) = d

\* the entries of directory d: its files, and its subdirectories
FileNamesIn(files, d) == {p[Len(d) + 1] : p \in {q \in files : IsPrefix(d, q) /\ Len(q) = Len(d) + 1}}

DirNamesIn(files, d) == {p[Len(d) + 1] : p \in {q \in files : IsPrefix(d, q) /\ Len(q) > Len(d) + 1}}

\* a name matches *<triple>*: the triple occurs in it, and a leading dot is
\* not matched by the leading wildcard
MatchesTriple(name) == name[1] # "" /\ \E i \in 1..Len(name) : name[i] = Triple

\* variant: every entry of target/ matches
GlobMatchesAll(files) ==
    FileNamesIn(files, << <<"target">> >>) \cup DirNamesIn(files, << <<"target">> >>)

\* glob(f'{compile_dst}/*{toolchain_name}*'): the entries of target/ that match
GlobMatches(files) ==
    {n \in FileNamesIn(files, << <<"target">> >>) \cup DirNamesIn(files, << <<"target">> >>) :
        MatchesTriple(n)}

\* Path(file).suffix: the text from the last dot on, "" when the name has no
\* dot, only a leading dot, or ends with its dot
Suffix(name) ==
    IF Len(name) >= 2 /\ Last(name) # "" /\ ~(Len(name) = 2 /\ name[1] = "")
    THEN "." \o Last(name) ELSE ""

\* seeked_files (lines 289-292)
SeekedSuffixes == {".dll", ".exe"}

IsArtifact(name) == Suffix(name) \in SeekedSuffixes

\* the names pruned from `directories` (line 296)
Denylist == { <<"", "fingerprint">>, <<"build">>, <<"deps">> }

\* variant: nothing is pruned
KeptDirsAll(dirs) == dirs

\* directories[:] = [d for d in directories if d not in (...)]
KeptDirs(dirs) == {d \in dirs : d \notin Denylist}

RECURSIVE Walk(_, _)
\* os.walk(d), top-down with the pruning of line 295, and the matches appended
Walk(files, d) ==
    LET own  == SelectSeq(SetToSeq(FileNamesIn(files, d)), IsArtifact)
        here == [i \in 1..Len(own) |-> d \o <<own[i]>>]
        subs == SetToSeq(KeptDirs(DirNamesIn(files, d)))
        RECURSIVE Below(_)
        Below(i) == IF i > Len(subs) THEN <<>>
                    ELSE Walk(files, d \o <<subs[i]>>) \o Below(i + 1)
    IN  here \o Below(1)

\* _get_result_files once compile_dst names the matched entry `top`
GetResultFiles(files, top) == Walk(files, << <<"target">>, top >>)

(***************************************************************************)
(* remove_line and remove_no_std_from_project (lines 39-54).               *)
(***************************************************************************)
Whitespace == {" ", "\t"}

RECURSIVE LStrip(_)
LStrip(line) ==
    IF line # <<>> /\ Head(line) \in Whitespace THEN LStrip(Tail(line)) ELSE line

RECURSIVE RStrip(_)
RStrip(line) ==
    IF line # <<>> /\ Last(line) \in Whitespace
    THEN RStrip(SubSeq(line, 1, Len(line) - 1)) ELSE line

\* line.strip()
Strip(line) == RStrip(LStrip(line))

IsNoStd(line) == Strip(line) = <<"#![no_std]">>

\* remove_line(filepath, line_nb): the file without its line of index line_nb
\* (counted from 0); the file is read again at every call
RemoveLine(lines, line_nb) ==
    [j \in 1..(Len(lines) - (IF line_nb + 1 \in 1..Len(lines) THEN 1 ELSE 0)) |->
        IF j <= line_nb THEN lines[j] ELSE lines[j + 1]]

RECURSIVE RemoveNoStdFrom(_, _, _)
\* the loop of lines 52-54 from index i on: `content` is what was read before
\* the loop, `cur` is the file as it is now
RemoveNoStdFrom(content, cur, i) ==
    IF i >= Len(content) THEN cur
    ELSE RemoveNoStdFrom(content,
                         IF IsNoStd(content[i + 1]) THEN RemoveLine(cur, i) ELSE cur,
                         i + 1)

\* f.endswith(".rs")
IsRustSource(name) == Len(name) >= 2 /\ Last(name) = "rs"

\* remove_no_std_from_project on the files (path -> lines) of one tree
RemoveNoStdFromProject(files) ==
    [p \in DOMAIN files |->
        IF IsRustSource(Last(p)) THEN RemoveNoStdFrom(files[p], files[p], 0) ELSE files[p]]

(***************************************************************************)
(* setup_toml (lines 57-76).                                               *)
(***************************************************************************)
Num(n) == [t |-> "int", n |-> n, s |-> <<>>, tab |-> <<>>]

Strs(s) == [t |-> "strs", n |-> 0, s |-> s, tab |-> <<>>]

Tab(f) == [t |-> "tab", n |-> 0, s |-> <<>>, tab |-> f]

\* isinstance(y, dict)
IsDict(y) == y.t = "tab"

\* "\\" in k
HasBackslash(k) == \E i \in 1..Len(k) : k[i] = "\\"

\* k.replace("\\", "")
NoBackslash(k) == SelectSeq(k, LAMBDA c : c # "\\")

\* variant: the manifest's value is kept where both have the key
MergeManifestWins(m, t) ==
    [k \in DOMAIN m \cup DOMAIN t |-> IF k \in DOMAIN m THEN m[k] ELSE t[k]]

\* crate_toml |= custom_options
Merge(m, t) ==
    [k \in DOMAIN m \cup DOMAIN t |-> IF k \in DOMAIN t THEN t[k] ELSE m[k]]

\* The loop of lines 70-74 on one nested table y: each key with a backslash
\* is deleted and its value stored under the name without backslashes,
\* overwriting what that name held.
SanitizeTable(y) ==
    LET moved == {k \in DOMAIN y : HasBackslash(k)}
        kept  == {k \in DOMAIN y : ~HasBackslash(k)}
        names == kept \cup {NoBackslash(k) : k \in moved}
    IN  [n \in names |->
            IF \E k \in moved : NoBackslash(k) = n
            THEN y[CHOOSE k \in moved : NoBackslash(k) = n]
            ELSE y[n]]

\* lines 68-74 on a whole table: only the tables that are values of
\* top-level keys are visited
SanitizeValues(table) ==
    [x \in DOMAIN table |->
        IF IsDict(table[x]) THEN Tab(SanitizeTable(table[x].tab)) ELSE table[x]]

\* what toml.dump writes to toml_path
SetupTomlWritten(m, template) == SanitizeValues(Merge(m, template))

\* The template's nested tables after the call: crate_toml holds the very
\* objects of `template` (the |= copies references), so lines 73-74 change them.
SetupTomlTemplateAfter(template) == SanitizeValues(template)

(***************************************************************************)
(* Inputs of the model.                                                    *)
(***************************************************************************)
kLib == <<"l", "i", "b">>
kCrateType == <<"c", "r", "a", "t", "e", "-", "t", "y", "p", "e">>
kProfile == <<"p", "r", "o", "f", "i", "l", "e">>
kOpt == <<"o", "p", "t">>
kDeps == <<"d", "e", "p", "s">>
kAB == <<"a", "b">>
kABs == <<"a", "\\", "b">>
kC == <<"c">>

NoStdLine == <<"#![no_std]">>
NoStdIndented == <<" ", "#![no_std]", "\t">>
CodeLine == <<"fn", " ", "main() {}">>
CommentLine == <<"//", " ", "#![no_std]">>

LibRs == << <<"src">>, <<"lib", "rs">> >>
NotesTxt == << <<"notes", "txt">> >>

\* The trees compile_crate works on before it runs; "repo" is the tree the
\* clone yields (or the existing copy), "primary" the extracted archive.
TreeManifest(tree) ==
    IF tree = "repo"
    THEN (kProfile :> Tab(kOpt :> Num(0))) @@ (kDeps :> Tab(kABs :> Num(1)))
    ELSE (kProfile :> Tab(kOpt :> Num(0))) @@ (kLib :> Tab(kCrateType :> Strs(<<"rlib">>)))

TreeSources(tree) ==
    (LibRs :> <<NoStdLine, CodeLine>>) @@ (NotesTxt :> <<NoStdLine>>)

CtxTemplates ==
    { (kProfile :> Tab(kOpt :> Num(3))),
      (kProfile :> Tab(kOpt :> Num(3))) @@ (kLib :> Tab(kCrateType :> Strs(<<"rlib">>))),
      (kLib :> Tab(<<>>)),
      (kProfile :> Tab((kABs :> Num(3)) @@ (kAB :> Num(4)))) @@ (kLib :> Tab(kABs :> Num(1))) }

CrateFeatureNames == {"full", "x", "y"}

NoRet == [code |-> -1, by |-> 0]

NoInv == [phase |-> "", cwd |-> "", args |-> BuildArgs(<<>>, <<>>), env |-> NoEnv]

(***************************************************************************)
(* _cargo_build (lines 125-181): one step per build-tool invocation.       *)
(***************************************************************************)
\* variant: compile_crate returns once the examples are built
AfterBuildReturnEarly(phase) ==
    IF entry = "_cargo_build" THEN "done"
    ELSE CASE phase = "tests"    -> "benches"
           [] phase = "benches"  -> "examples"
           [] phase = "examples" -> "done"
           [] OTHER              -> "collect_primary"

\* variant: the cloned tree's artifacts are not collected
AfterBuildSkipCollect(phase) ==
    IF entry = "_cargo_build" THEN "done"
    ELSE CASE phase = "tests"    -> "benches"
           [] phase = "benches"  -> "examples"
           [] phase = "examples" -> "patch_primary"
           [] OTHER              -> "collect_primary"

\* variant: the benches are built last
AfterBuildBenchesLast(phase) ==
    IF entry = "_cargo_build" THEN "done"
    ELSE CASE phase = "tests"    -> "examples"
           [] phase = "examples" -> "benches"
           [] phase = "benches"  -> "collect_repo"
           [] OTHER              -> "collect_primary"

\* where the caller goes on once the call of this phase has returned
AfterBuild(phase) ==
    IF entry = "_cargo_build" THEN "done"
    ELSE CASE phase = "tests"    -> "benches"
           [] phase = "benches"  -> "examples"
           [] phase = "examples" -> "collect_repo"
           [] OTHER              -> "collect_primary"

CargoBuild ==
    /\ pc \in Phases
    /\ \E rc \in ExitCodes, left \in BuildLeftovers(ctxProfile) :
        LET cur  == IF inCall THEN bfeat ELSE features
            tree == IF entry = "_cargo_build" THEN argTree ELSE PhaseTree(pc)
            inv  == [phase |-> pc, cwd |-> tree,
                     args |-> BuildArgs(PostVerb(pc, ctxProfile), cur),
                     env  |-> BuildEnv(OsEnviron, additional_env, ctxEnv)]
            att  == [feats |-> cur, code |-> rc]
            atts == IF inCall THEN Append(attempts, att) ELSE <<att>>
            made == IF rc = 0 THEN BuildProducts(pc, ctxProfile) ELSE left
        IN  /\ lastInv' = inv
            /\ attempts' = atts
            /\ invs' = [invs EXCEPT ![pc] = @ + 1]
            /\ calls' = IF inCall THEN calls ELSE [calls EXCEPT ![pc] = @ + 1]
            /\ fs' = [fs EXCEPT ![tree] = @ \cup made]
            /\ IF ShouldRetry(rc, cur)
               THEN /\ inCall' = TRUE
                    /\ bfeat' = RetryFeatures(cur)
                    /\ UNCHANGED <<ret, pc>>
               ELSE /\ inCall' = FALSE
                    /\ bfeat' = <<>>
                    /\ ret' = [code |-> rc, by |-> Len(atts)]
                    /\ pc' = AfterBuild(pc)
    /\ UNCHANGED <<raisedAt, crateFeatures, features, status, repoOnDisk, cloneOk,
                   repo_path, cloned, ctxTemplate, ctxTemplate0, ctxLib, ctxProfile,
                   manifest, srcs, srcs0, patched, results, entry, argTree, argTemplate,
                   ctxEnv, additional_env, argProfile, tags, checkedOut>>

(***************************************************************************)
(* setup_toml as a step (lines 57-76).                                     *)
(***************************************************************************)
\* setup_toml(tree's Cargo.toml, template): the sources are patched, the
\* manifest is rewritten, and the call is recorded
SetupTomlOn(tree, template) ==
    /\ srcs' = [srcs EXCEPT ![tree] = RemoveNoStdFromProject(@)]
    /\ manifest' = [manifest EXCEPT ![tree] = SetupTomlWritten(@, template)]
    /\ patched' = Append(patched, [tree |-> tree, template |-> template,
                                   before |-> manifest[tree]])

SetupTomlCall ==
    /\ pc = "setup_toml"
    /\ SetupTomlOn(argTree, argTemplate)
    /\ argTemplate' = SetupTomlTemplateAfter(argTemplate)
    /\ pc' = "done"
    /\ UNCHANGED <<raisedAt, crateFeatures, features, status, repoOnDisk, cloneOk,
                   repo_path, cloned, ctxTemplate, ctxTemplate0, ctxLib, ctxProfile,
                   srcs0, fs, inCall, bfeat, attempts, ret, lastInv, calls, invs,
                   results, entry, argTree,
                   ctxEnv, additional_env, argProfile, tags, checkedOut>>

RemoveNoStdCall ==
    /\ pc = "remove_no_std"
    /\ srcs' = [srcs EXCEPT ![argTree] = RemoveNoStdFromProject(@)]
    /\ pc' = "done"
    /\ UNCHANGED <<raisedAt, crateFeatures, features, status, repoOnDisk, cloneOk,
                   repo_path, cloned, ctxTemplate, ctxTemplate0, ctxLib, ctxProfile,
                   manifest, srcs0, fs, inCall, bfeat, attempts, ret, lastInv, calls,
                   invs, patched, results, entry, argTree, argTemplate,
                   ctxEnv, additional_env, argProfile, tags, checkedOut>>

(***************************************************************************)
(* _get_result_files as a step (lines 247-304).                            *)
(***************************************************************************)
\* The artifacts of one tree, each with the tree it was found in.  The glob
\* lists its matches in an arbitrary order and [0] takes the first: any match
\* may be the one walked.  No match: the [0] raises IndexError.
Collected(tree, top) ==
    LET found == GetResultFiles(fs[tree], top)
    IN  [i \in 1..Len(found) |-> [tree |-> tree, path |-> found[i]]]

\* line 262-263: glob.glob returns str objects, and `compile_dst.joinpath` is
\* looked up on one of them whenever a profile is given: AttributeError
ProfileStepRaises(profile) == profile # "None"

GetResultFilesCall ==
    /\ pc = "collect"
    /\ IF GlobMatches(fs[argTree]) = {}
       THEN /\ pc' = "raised"
            /\ raisedAt' = "collect"
            /\ UNCHANGED results
       ELSE IF ProfileStepRaises(argProfile)
       THEN /\ pc' = "raised"
            /\ raisedAt' = "joinpath"
            /\ UNCHANGED results
       ELSE \E top \in GlobMatches(fs[argTree]) :
            /\ results' = Collected(argTree, top)
            /\ pc' = "done"
            /\ UNCHANGED raisedAt
    /\ UNCHANGED <<crateFeatures, features, status, repoOnDisk, cloneOk,
                   repo_path, cloned, ctxTemplate, ctxTemplate0, ctxLib, ctxProfile,
                   manifest, srcs, srcs0, fs, inCall, bfeat, attempts, ret, lastInv,
                   calls, invs, patched, entry, argTree, argTemplate,
                   ctxEnv, additional_env, argProfile, tags, checkedOut>>

(***************************************************************************)
(* compile_crate (lines 306-337).                                          *)
(***************************************************************************)
Range(f) == {f[i] : i \in DOMAIN f}

\* variant: "full" is moved to the front and the other features are kept
NormalizeFullFirst(f) ==
    IF "full" \in Range(f) THEN <<"full">> \o SelectSeq(f, LAMBDA e : e # "full") ELSE f

\* variant: the list is passed on as it is
NormalizeKeepAll(f) == f

\* lines 314-317: if "full" in features: features = ["full"]
Normalize(f) == IF "full" \in Range(f) THEN <<"full">> ELSE f

CompileCrateStart ==
    /\ pc = "start"
    /\ features' = Normalize(crateFeatures)
    /\ pc' = "setup_repo"
    /\ UNCHANGED <<raisedAt, crateFeatures, status, repoOnDisk, cloneOk,
                   repo_path, cloned, ctxTemplate, ctxTemplate0, ctxLib, ctxProfile,
                   manifest, srcs, srcs0, fs, inCall, bfeat, attempts, ret, lastInv,
                   calls, invs, patched, results, entry, argTree, argTemplate,
                   ctxEnv, additional_env, argProfile, tags, checkedOut>>

\* _setup_repo (lines 90-123).  A 404 probe returns None before any clone.
\* Otherwise the clone is tried; it cannot succeed into an existing copy, and
\* when it fails Repo(repo_path) opens the existing copy or raises if there
\* is none.
\* variant: the status is not looked at
ProbeSaysMissingNever(code) == FALSE

\* requests.get(crate.repository).status_code == 404
ProbeSaysMissing(code) == code = 404

\* crate.name and crate.version
CrateName == "demo"
CrateVersion == "1.2.0"

\* lines 104-111
SeekedTags ==
    << CrateName \o "-" \o CrateVersion,
       CrateName \o "-v" \o CrateVersion,
       CrateName \o "_" \o CrateVersion,
       CrateName \o "_v" \o CrateVersion,
       CrateVersion,
       "v" \o CrateVersion >>

\* lines 113-117: found_tag after the loop over the tags (found_tag = None is "")
RECURSIVE ScanTags(_, _, _)
ScanTags(tagseq, seeked, found_tag) ==
    IF tagseq = <<>> THEN found_tag
    ELSE ScanTags(Tail(tagseq), seeked,
                  IF Head(tagseq) \in Range(seeked) THEN Head(tagseq) ELSE found_tag)

\* variant: the scan stops at the first match
FoundTagFirst(tagseq, seeked) ==
    LET hits == {i \in DOMAIN tagseq : tagseq[i] \in Range(seeked)}
    IN  IF hits = {} THEN "" ELSE tagseq[CHOOSE i \in hits : \A j \in hits : i <= j]

FoundTag(tagseq, seeked) == ScanTags(tagseq, seeked, "")

\* variant: a failed clone is not absorbed
RepoOpenedByCloneOnly(ok, onDisk) == ok

\* lines 94-101: `repo` is bound when the clone succeeds, or when it fails and
\* Repo(repo_path) finds a repository at repo_path; otherwise Repo() raises
RepoOpened(ok, onDisk) == ok \/ onDisk

\* where the caller of _setup_repo goes on with the value it returned
AfterSetupRepo(path) ==
    IF entry = "_setup_repo" THEN "done"
    ELSE IF path = "None" THEN "patch_primary" ELSE "patch_repo"

SetupRepo ==
    /\ pc = "setup_repo"
    /\ IF ProbeSaysMissing(status)
       THEN /\ repo_path' = "None"
            /\ pc' = AfterSetupRepo("None")
            /\ UNCHANGED <<cloned, cloneOk, repoOnDisk, raisedAt, checkedOut>>
       ELSE \E ok \in (IF repoOnDisk THEN {FALSE} ELSE {TRUE, FALSE}) :
            /\ cloned' = cloned + 1
            /\ cloneOk' = ok
            /\ IF RepoOpened(ok, repoOnDisk)
               THEN /\ repoOnDisk' = TRUE
                    /\ checkedOut' = FoundTag(tags, SeekedTags)
                    /\ repo_path' = "repo"
                    /\ pc' = AfterSetupRepo("repo")
                    /\ UNCHANGED raisedAt
               ELSE /\ pc' = "raised"
                    /\ raisedAt' = "setup_repo"
                    /\ UNCHANGED <<repoOnDisk, repo_path, checkedOut>>
    /\ UNCHANGED <<crateFeatures, features, status, ctxTemplate, ctxTemplate0,
                   ctxLib, ctxProfile, manifest, srcs, srcs0, fs, inCall, bfeat,
                   attempts, ret, lastInv, calls, invs, patched, results, entry,
                   argTree, argTemplate,
                   ctxEnv, additional_env, argProfile, tags>>

\* bool(v) of a manifest value
Truthy(v) ==
    CASE v.t = "tab"  -> DOMAIN v.tab # {}
      [] v.t = "strs" -> v.s # <<>>
      [] OTHER        -> v.n # 0

Without(table, key) == [k \in DOMAIN table \ {key} |-> table[k]]

\* lines 321-323: the shallow copy without a truthy 'lib'
AuxTemplate(template) ==
    IF kLib \in DOMAIN template /\ Truthy(template[kLib])
    THEN Without(template, kLib) ELSE template

LibDirective == Tab(kCrateType :> Strs(<<"cdylib">>))

\* lines 328-330: the shallow copy, with 'lib' set when ctx.lib
PrimaryTemplate(template, lib) ==
    IF lib THEN [k \in DOMAIN template \cup {kLib} |->
                    IF k = kLib THEN LibDirective ELSE template[k]]
    ELSE template

\* ctx.template after setup_toml ran on a shallow copy of it: the values under
\* the keys in `shared` are the same objects in both
TemplateSharing(template, shared, after) ==
    [k \in DOMAIN template |-> IF k \in shared THEN after[k] ELSE template[k]]

\* lines 320-324
PatchRepo ==
    /\ pc = "patch_repo"
    /\ LET lib_template == AuxTemplate(ctxTemplate)
       IN  /\ SetupTomlOn("repo", lib_template)
           /\ ctxTemplate' = TemplateSharing(ctxTemplate, DOMAIN lib_template,
                                             SetupTomlTemplateAfter(lib_template))
    /\ pc' = "tests"
    /\ UNCHANGED <<raisedAt, crateFeatures, features, status, repoOnDisk, cloneOk,
                   repo_path, cloned, ctxTemplate0, ctxLib, ctxProfile, srcs0, fs,
                   inCall, bfeat, attempts, ret, lastInv, calls, invs, results,
                   entry, argTree, argTemplate,
                   ctxEnv, additional_env, argProfile, tags, checkedOut>>

\* line 326: results += self._get_result_files(repo_path)
CollectRepo ==
    /\ pc = "collect_repo"
    /\ IF GlobMatches(fs["repo"]) = {}
       THEN /\ pc' = "raised"
            /\ raisedAt' = "collect_repo"
            /\ UNCHANGED results
       ELSE \E top \in GlobMatches(fs["repo"]) :
            /\ results' = results \o Collected("repo", top)
            /\ pc' = "patch_primary"
            /\ UNCHANGED raisedAt
    /\ UNCHANGED <<crateFeatures, features, status, repoOnDisk, cloneOk,
                   repo_path, cloned, ctxTemplate, ctxTemplate0, ctxLib, ctxProfile,
                   manifest, srcs, srcs0, fs, inCall, bfeat, attempts, ret, lastInv,
                   calls, invs, patched, entry, argTree, argTemplate,
                   ctxEnv, additional_env, argProfile, tags, checkedOut>>

\* lines 328-331
PatchPrimary ==
    /\ pc = "patch_primary"
    /\ LET lib_template == PrimaryTemplate(ctxTemplate, ctxLib)
           shared == IF ctxLib THEN DOMAIN ctxTemplate \ {kLib} ELSE DOMAIN ctxTemplate
       IN  /\ SetupTomlOn("primary", lib_template)
           /\ ctxTemplate' = TemplateSharing(ctxTemplate, shared,
                                             SetupTomlTemplateAfter(lib_template))
    /\ pc' = "primary"
    /\ UNCHANGED <<raisedAt, crateFeatures, features, status, repoOnDisk, cloneOk,
                   repo_path, cloned, ctxTemplate0, ctxLib, ctxProfile, srcs0, fs,
                   inCall, bfeat, attempts, ret, lastInv, calls, invs, results,
                   entry, argTree, argTemplate,
                   ctxEnv, additional_env, argProfile, tags, checkedOut>>

\* lines 333-337: results += self._get_result_files(toml_path.parent); return
CollectPrimary ==
    /\ pc = "collect_primary"
    /\ IF GlobMatches(fs["primary"]) = {}
       THEN /\ pc' = "raised"
            /\ raisedAt' = "collect_primary"
            /\ UNCHANGED results
       ELSE \E top \in GlobMatches(fs["primary"]) :
            /\ results' = results \o Collected("primary", top)
            /\ pc' = "done"
            /\ UNCHANGED raisedAt
    /\ UNCHANGED <<crateFeatures, features, status, repoOnDisk, cloneOk,
                   repo_path, cloned, ctxTemplate, ctxTemplate0, ctxLib, ctxProfile,
                   manifest, srcs, srcs0, fs, inCall, bfeat, attempts, ret, lastInv,
                   calls, invs, patched, entry, argTree, argTemplate,
                   ctxEnv, additional_env, argProfile, tags, checkedOut>>

(***************************************************************************)
(* Specifications.                                                         *)
(***************************************************************************)
\* what every specification starts with, whatever is called
Idle ==
    /\ raisedAt = ""
    /\ cloneOk = FALSE
    /\ repo_path = "None"
    /\ cloned = 0
    /\ inCall = FALSE
    /\ bfeat = <<>>
    /\ attempts = <<>>
    /\ ret = NoRet
    /\ lastInv = NoInv
    /\ calls = [p \in Phases |-> 0]
    /\ invs = [p \in Phases |-> 0]
    /\ patched = <<>>
    /\ results = <<>>
    /\ checkedOut = ""

\* compile_crate(crate, toml_path) on a freshly extracted archive
Init ==
    /\ Idle
    /\ ctxEnv = EnvOverride
    /\ additional_env = ctxEnv
    /\ argProfile = "None"
    /\ tags = <<"v1.1.0", CrateName \o "-" \o CrateVersion, "v" \o CrateVersion>>
    /\ entry = "compile_crate"
    /\ pc = "start"
    /\ crateFeatures \in SeqsUpTo(CrateFeatureNames, MaxCrateFeatures)
    /\ features = <<>>
    /\ status \in {200, 404}
    /\ repoOnDisk \in BOOLEAN
    /\ ctxTemplate \in CtxTemplates
    /\ ctxTemplate0 = ctxTemplate
    /\ ctxLib \in BOOLEAN
    /\ ctxProfile = "dev"
    /\ manifest = [t \in Trees |-> TreeManifest(t)]
    /\ srcs = [t \in Trees |-> TreeSources(t)]
    /\ srcs0 = srcs
    /\ fs \in {[t \in Trees |-> IF t = "repo" THEN old ELSE {}] :
                old \in IF repoOnDisk THEN {{}, BuildProducts("examples", ctxProfile)}
                                      ELSE {{}}}
    /\ argTree = "primary"
    /\ argTemplate = <<>>

Next ==
    \/ CompileCrateStart
    \/ SetupRepo
    \/ PatchRepo
    \/ CargoBuild
    \/ CollectRepo
    \/ PatchPrimary
    \/ CollectPrimary

Spec == Init /\ [][Next]_vars

\* one call _cargo_build(project_path, crate, features, post_verb, env)
\* <<additional_env, ctx.env>>: the argument is ctx.env itself, as the callers
\* in this file pass it, or another mapping
EnvPairs ==
    { <<NoEnv, NoEnv>>, <<EnvOverride, EnvOverride>>, <<NoEnv, EnvOverride>>,
      <<EnvOther, EnvOverride>>, <<EnvOther, NoEnv>> }

InitBuild ==
    /\ Idle
    /\ \E pair \in EnvPairs : additional_env = pair[1] /\ ctxEnv = pair[2]
    /\ argProfile = "None"
    /\ tags = <<>>
    /\ entry = "_cargo_build"
    /\ pc \in Phases
    /\ crateFeatures = <<>>
    /\ features \in SeqsUpTo(FeatureNames, MaxFeatures)
    /\ status = 200
    /\ repoOnDisk = FALSE
    /\ ctxTemplate = <<>>
    /\ ctxTemplate0 = ctxTemplate
    /\ ctxLib = FALSE
    /\ ctxProfile \in {"dev", "release"}
    /\ manifest = [t \in Trees |-> TreeManifest(t)]
    /\ srcs = [t \in Trees |-> TreeSources(t)]
    /\ srcs0 = srcs
    /\ fs = [t \in Trees |-> {}]
    /\ argTree = "primary"
    /\ argTemplate = <<>>

NextBuild == CargoBuild

SpecBuild == InitBuild /\ [][NextBuild]_vars

\* one call setup_toml(toml_path, template)
NestedKeys == {kAB, kABs, kC}

TopKeys == {kProfile, kABs}

\* the values of a nested table: two numbers, and a table one level deeper
NestedVals(o) == {Num(o), Num(o + 1), Tab(kABs :> Num(o))}

NestedTabs(o) ==
    UNION {[S -> NestedVals(o)] : S \in {S \in SUBSET NestedKeys : Cardinality(S) <= MaxNested}}

RichTables(o) ==
    UNION {[S -> {Num(o)} \cup {Tab(f) : f \in NestedTabs(o)}] : S \in SUBSET TopKeys}

PoorTables ==
    { <<>>,
      (kProfile :> Tab(kOpt :> Num(9))),
      (kABs :> Num(9)),
      (kProfile :> Num(9)) @@ (kC :> Tab(kABs :> Num(9))) }

InitToml ==
    /\ Idle
    /\ ctxEnv = NoEnv
    /\ additional_env = NoEnv
    /\ argProfile = "None"
    /\ tags = <<>>
    /\ entry = "setup_toml"
    /\ pc = "setup_toml"
    /\ crateFeatures = <<>>
    /\ features = <<>>
    /\ status = 200
    /\ repoOnDisk = FALSE
    /\ ctxTemplate = <<>>
    /\ ctxTemplate0 = ctxTemplate
    /\ ctxLib = FALSE
    /\ ctxProfile = "dev"
    /\ argTree = "primary"
    /\ \E m \in RichTables(0) \cup PoorTables, t \in RichTables(3) \cup PoorTables :
        /\ m \in PoorTables \/ t \in PoorTables
        /\ manifest = [tr \in Trees |-> IF tr = argTree THEN m ELSE TreeManifest(tr)]
        /\ argTemplate = t
    /\ srcs = [t \in Trees |-> TreeSources(t)]
    /\ srcs0 = srcs
    /\ fs = [t \in Trees |-> {}]

NextToml == SetupTomlCall

SpecToml == InitToml /\ [][NextToml]_vars

\* one call remove_no_std_from_project(project_path)
LineSet == {NoStdLine, NoStdIndented, CodeLine, CommentLine}

InitNoStd ==
    /\ Idle
    /\ ctxEnv = NoEnv
    /\ additional_env = NoEnv
    /\ argProfile = "None"
    /\ tags = <<>>
    /\ entry = "remove_no_std"
    /\ pc = "remove_no_std"
    /\ crateFeatures = <<>>
    /\ features = <<>>
    /\ status = 200
    /\ repoOnDisk = FALSE
    /\ ctxTemplate = <<>>
    /\ ctxTemplate0 = ctxTemplate
    /\ ctxLib = FALSE
    /\ ctxProfile = "dev"
    /\ argTree = "primary"
    /\ argTemplate = <<>>
    /\ manifest = [t \in Trees |-> TreeManifest(t)]
    /\ \E c \in SeqsUpTo(LineSet, MaxLines), other \in {NotesTxt, << <<"rs">> >>} :
        srcs = [t \in Trees |->
                  IF t = argTree THEN (LibRs :> c) @@ (other :> <<NoStdLine, CodeLine>>)
                  ELSE TreeSources(t)]
    /\ srcs0 = srcs
    /\ fs = [t \in Trees |-> {}]

NextNoStd == RemoveNoStdCall

SpecNoStd == InitNoStd /\ [][NextNoStd]_vars

\* one call _setup_repo(crate)
TagNames == Range(SeekedTags) \cup {"v1.1.0", CrateName \o "-" \o CrateVersion \o "-rc1"}

\* the tag lists of a repository: no name twice
TagLists == {s \in SeqsUpTo(TagNames, MaxTags) : \A i, j \in DOMAIN s : s[i] = s[j] => i = j}

InitRepo ==
    /\ Idle
    /\ entry = "_setup_repo"
    /\ pc = "setup_repo"
    /\ ctxEnv = NoEnv
    /\ additional_env = NoEnv
    /\ argProfile = "None"
    /\ tags \in TagLists
    /\ crateFeatures = <<>>
    /\ features = <<>>
    /\ status \in {200, 404}
    /\ repoOnDisk \in BOOLEAN
    /\ ctxTemplate = <<>>
    /\ ctxTemplate0 = ctxTemplate
    /\ ctxLib = FALSE
    /\ ctxProfile = "dev"
    /\ argTree = "repo"
    /\ argTemplate = <<>>
    /\ manifest = [t \in Trees |-> TreeManifest(t)]
    /\ srcs = [t \in Trees |-> TreeSources(t)]
    /\ srcs0 = srcs
    /\ fs = [t \in Trees |-> {}]

NextRepo == SetupRepo

SpecRepo == InitRepo /\ [][NextRepo]_vars

\* one call _get_result_files(project_path, profile)
WalkDirNames == Denylist \cup { <<"debug">> }

WalkTopNames == { <<Triple>>, <<"old", Triple>>, <<"debug">> }

WalkTopFiles == { <<Triple, "json">>, <<"CACHEDIR", "TAG">> }

WalkFileNames == { <<"a", "exe">>, <<"b", "dll">>, <<"c", "txt">>, <<"", "exe">> }

\* one more file, anywhere down to MaxDepth directories below an entry of target/
\* or a plain file in target/ itself
ExtraFiles ==
    {<< <<"target">>, top >> \o dirs \o <<f>> :
        top \in WalkTopNames, dirs \in SeqsUpTo(WalkDirNames, MaxDepth), f \in WalkFileNames}
    \cup {<< <<"target">>, f >> : f \in WalkTopFiles}

InitWalk ==
    /\ Idle
    /\ ctxEnv = NoEnv
    /\ additional_env = NoEnv
    /\ argProfile \in {"None", "debug"}
    /\ tags = <<>>
    /\ entry = "_get_result_files"
    /\ pc = "collect"
    /\ crateFeatures = <<>>
    /\ features = <<>>
    /\ status = 200
    /\ repoOnDisk = FALSE
    /\ ctxTemplate = <<>>
    /\ ctxTemplate0 = ctxTemplate
    /\ ctxLib = FALSE
    /\ ctxProfile = "dev"
    /\ argTree = "primary"
    /\ argTemplate = <<>>
    /\ manifest = [t \in Trees |-> TreeManifest(t)]
    /\ srcs = [t \in Trees |-> TreeSources(t)]
    /\ srcs0 = srcs
    /\ \E base \in {{}, BuildProducts("primary", ctxProfile)},
          extra \in {{}} \cup {{e} : e \in ExtraFiles} :
        fs = [t \in Trees |-> IF t = argTree THEN base \cup extra ELSE {}]

NextWalk == GetResultFilesCall

SpecWalk == InitWalk /\ [][NextWalk]_vars

\* the artifact collection, reached through compile_crate or called directly
InitCollect == Init \/ InitWalk

NextCollect == Next \/ NextWalk

SpecCollect == InitCollect /\ [][NextCollect]_vars

(***************************************************************************)
(* Properties.                                                             *)
(***************************************************************************)
Returned == ~inCall /\ attempts # <<>>

\* C1: a _cargo_build call given the feature list F makes at most Len(F) + 1
\* build-tool invocations: while it is still retrying it has made at most
\* Len(F), after Len(F) + 1 it has returned; and an invocation that comes
\* after Len(F) failures, like the last one of a call whose attempts all
\* failed, has the empty feature list and no --features argument.
C1_RetryBounded ==
    /\ Len(attempts) <= Len(features) + 1
    /\ (inCall => Len(attempts) <= Len(features))
    /\ (Len(attempts) = Len(features) + 1 =>
            /\ ~inCall
            /\ Last(attempts).feats = <<>>
            /\ ~lastInv.args.hasFeatures
            /\ \A k \in 1..Len(features) : attempts[k].code # 0)
    /\ (Returned /\ ret.code # 0 =>
            /\ Len(attempts) = Len(features) + 1
            /\ Last(attempts).feats = <<>>
            /\ ~lastInv.args.hasFeatures)

C1_Witness ==
    /\ Returned
    /\ Len(features) = 3
    /\ Len(attempts) = 4
    /\ ret.code # 0
    /\ ~lastInv.args.hasFeatures

\* C2: the k-th attempt of a call given F is made with F[k-1:]; every attempt
\* but the last one failed, a call still retrying has only failures behind it,
\* and what the call returns is the result of its last attempt, which either
\* exited with 0 or was made with the empty list.
C2_AttemptOrder ==
    /\ \A k \in 1..Len(attempts) :
            attempts[k].feats = SubSeq(features, k, Len(features))
    /\ \A k \in 1..(Len(attempts) - 1) : attempts[k].code # 0
    /\ (inCall => Last(attempts).code # 0 /\ Last(attempts).feats # <<>>)
    /\ (Returned =>
            /\ ret = [code |-> Last(attempts).code, by |-> Len(attempts)]
            /\ (ret.code = 0 \/ Last(attempts).feats = <<>>))

C2_Witness ==
    /\ Returned
    /\ features = <<"x", "y", "z">>
    /\ attempts = << [feats |-> <<"x", "y", "z">>, code |-> 101],
                     [feats |-> <<"y", "z">>, code |-> 101],
                     [feats |-> <<"z">>, code |-> 101],
                     [feats |-> <<>>, code |-> 0] >>
    /\ ret = [code |-> 0, by |-> 4]

HasFull == "full" \in Range(crateFeatures)

Invoked == lastInv.phase # ""

\* C3, as claimed: when "full" occurs in crate.features, every build-tool
\* invocation of compile_crate is passed exactly one feature, "full".
C3_Original ==
    HasFull /\ Invoked =>
        lastInv.args.hasFeatures /\ lastInv.args.featureArg = <<"full">>

\* C3, amended: when "full" occurs in crate.features, every _cargo_build call
\* of compile_crate makes at most two invocations: the first is passed
\* exactly one feature, "full", whatever else crate.features holds; the
\* second, made only after the first failed, is passed no --features at all.
C3_FullOrNothing ==
    HasFull /\ Invoked =>
        /\ features = <<"full">>
        /\ Len(attempts) \in {1, 2}
        /\ attempts[1].feats = <<"full">>
        /\ (Len(attempts) = 1 =>
                lastInv.args.hasFeatures /\ lastInv.args.featureArg = <<"full">>)
        /\ (Len(attempts) = 2 =>
                attempts[1].code # 0 /\ ~lastInv.args.hasFeatures)

C3_Witness ==
    /\ crateFeatures = <<"x", "full">>
    /\ pc = "done"
    /\ repo_path = "repo"
    /\ lastInv.phase = "primary"
    /\ Len(attempts) = 1
    /\ lastInv.args.featureArg = <<"full">>
    /\ invs["tests"] = 2

PrimaryPatched == \E i \in 1..Len(patched) : patched[i].tree = "primary"

PrimaryBuilt == calls["primary"] = 1 /\ invs["primary"] >= 1

Finished == pc \in {"done", "raised"}

\* C4, as claimed: in every compile_crate call in which _setup_repo returns,
\* whatever the probe and the auxiliary builds did, the primary manifest has
\* been patched and the primary build invoked when the call finishes.
C4_Original ==
    Finished /\ raisedAt # "setup_repo" => PrimaryPatched /\ PrimaryBuilt

\* C4, amended: step 3 runs in every compile_crate call that reaches it,
\* whatever the probe returned and however the builds ended: a call that
\* returns has patched the primary manifest and invoked the primary build, and
\* no build outcome ends the call.  The call ends before step 3 only when
\* _setup_repo raises or when the artifact collection from the cloned tree
\* finds no output directory and raises its lookup error; then the primary
\* manifest is not patched and the primary build is not invoked.
C4_StepThreeUnlessLookupFails ==
    /\ (pc = "done" => PrimaryPatched /\ PrimaryBuilt)
    /\ (pc \in {"primary", "collect_primary"} => PrimaryPatched)
    /\ (pc = "raised" =>
            /\ raisedAt \in {"setup_repo", "collect_repo", "collect_primary"}
            /\ (raisedAt = "collect_primary" => PrimaryPatched /\ PrimaryBuilt)
            /\ (raisedAt = "collect_repo" =>
                    /\ GlobMatches(fs["repo"]) = {}
                    /\ calls["examples"] = 1
                    /\ ~PrimaryPatched /\ calls["primary"] = 0)
            /\ (raisedAt = "setup_repo" => ~PrimaryPatched /\ calls["primary"] = 0))
    /\ (pc # "raised" => raisedAt = "")

\* every auxiliary build failed and yet the call went through step 3
C4_Witness ==
    /\ pc = "done"
    /\ repo_path = "repo"
    /\ invs["tests"] = Len(features) + 1
    /\ invs["benches"] = Len(features) + 1
    /\ invs["examples"] = Len(features) + 1
    /\ Len(features) = 2
    /\ [tree |-> "repo", path |-> OutRoot \o << <<"debug">>, <<"examples">>, <<"demo", "exe">> >>]
          \notin Range(results)
    /\ PrimaryPatched /\ PrimaryBuilt

AuxPhases == {"tests", "benches", "examples"}

\* C9: when the probe returns 404 nothing is cloned, the cloned tree's
\* manifest is never patched and no tests/benches/examples build is started;
\* a call that returns has patched the primary manifest only, once, has made
\* exactly one primary _cargo_build call (one invocation when the feature
\* list is empty), and every path it returns was found below the primary
\* project's matched output directory.
C9_NotFoundSkipsAuxiliary ==
    status = 404 /\ pc # "start" =>
        /\ cloned = 0
        /\ (pc # "setup_repo" => repo_path = "None")
        /\ \A i \in 1..Len(patched) : patched[i].tree = "primary"
        /\ \A p \in AuxPhases : calls[p] = 0 /\ invs[p] = 0
        /\ manifest["repo"] = TreeManifest("repo")
        /\ srcs["repo"] = srcs0["repo"]
        /\ calls["primary"] <= 1
        /\ (pc = "done" =>
                /\ Len(patched) = 1
                /\ calls["primary"] = 1
                /\ (features = <<>> => invs["primary"] = 1)
                /\ \E top \in GlobMatches(fs["primary"]) :
                        results = Collected("primary", top))

C9_Witness ==
    /\ status = 404
    /\ pc = "done"
    /\ crateFeatures = <<>>
    /\ invs["primary"] = 1
    /\ Len(patched) = 1
    /\ results # <<>>

\* C5, as claimed: after remove_no_std_from_project every .rs file holds its
\* original lines without those whose stripped text is #![no_std], the other
\* lines unchanged and in order.
C5_Claim ==
    pc = "done" =>
        \A p \in DOMAIN srcs[argTree] :
            IsRustSource(Last(p)) =>
                srcs[argTree][p] =
                    SelectSeq(srcs0[argTree][p], LAMBDA line : ~IsNoStd(line))

RECURSIVE KeysClean(_)
KeysClean(table) ==
    \A k \in DOMAIN table :
        ~HasBackslash(k) /\ (IsDict(table[k]) => KeysClean(table[k].tab))

RECURSIVE RenamedIn(_, _)
\* every key of orig that held a backslash is in written under its name
\* without backslashes, with its value (a table: with its keys renamed alike)
RenamedIn(orig, written) ==
    \A k \in DOMAIN orig :
        LET n == NoBackslash(k) IN
        /\ n \in DOMAIN written
        /\ IF IsDict(orig[k])
           THEN IsDict(written[n]) /\ RenamedIn(orig[k].tab, written[n].tab)
           ELSE HasBackslash(k) => written[n] = orig[k]

\* C6, as claimed: after setup_toml no key of the written manifest, at any
\* nesting level, holds a backslash, and every key of the merged manifest that
\* held one is there under the name without backslashes, with its value.
C6_Claim ==
    pc = "done" =>
        /\ KeysClean(manifest[argTree])
        /\ RenamedIn(Merge(patched[1].before, patched[1].template), manifest[argTree])

\* C7, as claimed: the written manifest has the keys of M and T, every key of
\* T with exactly T's value and every key of M not in T with exactly M's.
C7_Original ==
    pc = "done" =>
        LET m == patched[1].before
            t == patched[1].template
            w == manifest[argTree]
        IN  /\ DOMAIN w = DOMAIN m \cup DOMAIN t
            /\ \A k \in DOMAIN t : w[k] = t[k]
            /\ \A k \in DOMAIN m \ DOMAIN t : w[k] = m[k]

\* the value v as setup_toml writes it: unchanged unless it is a table with
\* keys holding a backslash, which are written under the name without it
WrittenAs(v, w) ==
    IF ~IsDict(v) \/ \A k \in DOMAIN v.tab : ~HasBackslash(k)
    THEN w = v
    ELSE /\ IsDict(w)
         /\ DOMAIN w.tab = {NoBackslash(k) : k \in DOMAIN v.tab}
         /\ \A n \in DOMAIN w.tab :
                IF \E k \in DOMAIN v.tab : HasBackslash(k) /\ NoBackslash(k) = n
                THEN \E k \in DOMAIN v.tab :
                        HasBackslash(k) /\ NoBackslash(k) = n /\ w.tab[n] = v.tab[k]
                ELSE w.tab[n] = v.tab[n]

\* C7, amended: the written manifest has exactly the top-level keys of M and
\* T; every key of T carries T's value and every key of M not in T carries
\* M's value (a table of M under a key of T is replaced wholesale), where a
\* value that is a table with keys holding a backslash is written with those
\* keys renamed to the name without backslashes, and is otherwise unchanged.
C7_MergeUpToKeyRenaming ==
    pc = "done" =>
        LET m == patched[1].before
            t == patched[1].template
            w == manifest[argTree]
        IN  /\ DOMAIN w = DOMAIN m \cup DOMAIN t
            /\ \A k \in DOMAIN t : WrittenAs(t[k], w[k])
            /\ \A k \in DOMAIN m \ DOMAIN t : WrittenAs(m[k], w[k])

C7_Witness ==
    /\ pc = "done"
    /\ patched[1].before = (kProfile :> Tab((kC :> Num(0)) @@ (kAB :> Num(1)))) @@ (kABs :> Num(0))
    /\ patched[1].template = (kProfile :> Tab(kOpt :> Num(9)))
    /\ manifest[argTree] = (kProfile :> Tab(kOpt :> Num(9))) @@ (kABs :> Num(0))

\* C8, as claimed: compile_crate leaves ctx.template, and every nested table
\* reachable from it, as they were before the call.
C8_Claim == ctxTemplate = ctxTemplate0

\* the segments of a returned path that name directories below the walked root
DirsBelowRoot(path) == {path[j] : j \in 3..(Len(path) - 1)}

\* C10: every path _get_result_files returns is a file of the tree with an
\* artifact extension, and none of the directories on it below the walked
\* output root is named in the denylist, at any depth.
C10_NoDenylistedSegment ==
    pc = "done" =>
        \A i \in 1..Len(results) :
            /\ results[i].path \in fs[argTree]
            /\ IsArtifact(Last(results[i].path))
            /\ DirsBelowRoot(results[i].path) \cap Denylist = {}

\* the tree holds an artifact two directories down, inside a denylisted
\* directory of the walked root, and other artifacts are returned
C10_Witness ==
    /\ pc = "done"
    /\ results # <<>>
    /\ \E p \in fs[argTree] :
        /\ Len(p) = 5
        /\ p[2] = results[1].path[2]
        /\ p[3] \notin Denylist
        /\ p[4] \in Denylist
        /\ IsArtifact(Last(p))
        /\ \A i \in 1..Len(results) : results[i].path # p

\* the names of the entries of target/ (files and directories alike) that the
\* pattern *<triple>* matches, read off the paths
TripleEntries(files) ==
    {p[2] : p \in {q \in files : Len(q) >= 2 /\ q[1] = <<"target">>
                                 /\ q[2][1] # "" /\ \E i \in 1..Len(q[2]) : q[2][i] = Triple}}

\* the directories directly under target/ whose name contains the triple
TripleDirs(files) ==
    {p[2] : p \in {q \in files : Len(q) >= 3 /\ q[1] = <<"target">>
                                 /\ \E i \in 1..Len(q[2]) : q[2][i] = Triple}}

\* the collection of the cloned tree, of the primary tree, or the directly
\* called one has run
RepoCollectRan ==
    /\ entry = "compile_crate" /\ repo_path = "repo" /\ calls["examples"] = 1
    /\ pc \notin {"examples", "collect_repo"}

PrimaryCollectRan ==
    /\ entry = "compile_crate" /\ calls["primary"] = 1
    /\ pc \in {"done", "raised"}

DirectCollectRan == entry = "_get_result_files" /\ pc \in {"done", "raised"}

\* C11 as stated: with no directory directly under target/ named with the
\* triple, _get_result_files raises and never returns a list
C11_Original ==
    DirectCollectRan /\ TripleDirs(fs[argTree]) = {} => pc = "raised"

\* C11: when no entry of <project>/target, file or directory, matches
\* *<triple>*, _get_result_files raises the lookup error and returns nothing,
\* and inside compile_crate the error ends the call: compile_crate never
\* returns a list after a collection that found no matching entry.
C11_LookupErrorPropagates ==
    /\ DirectCollectRan /\ TripleEntries(fs[argTree]) = {}
         => pc = "raised" /\ raisedAt = "collect" /\ results = <<>>
    /\ RepoCollectRan /\ TripleEntries(fs["repo"]) = {}
         => pc = "raised" /\ raisedAt = "collect_repo" /\ results = <<>>
            /\ ~PrimaryPatched
    /\ PrimaryCollectRan /\ TripleEntries(fs["primary"]) = {}
         => pc = "raised" /\ raisedAt = "collect_primary"
    /\ pc = "raised" => ~ENABLED NextCollect

C11_Witness ==
    /\ entry = "compile_crate" /\ pc = "raised" /\ raisedAt = "collect_primary"
    /\ invs["primary"] >= 1 /\ TripleEntries(fs["primary"]) = {}

\* the artifacts of a tree in walk order, for each entry the lookup may take
WalksOf(tree) == {Collected(tree, top) : top \in TripleEntries(fs[tree])}

\* C12: the list compile_crate returns is the cloned tree's artifacts (none
\* when no tree was obtained) followed by the primary tree's, each part in
\* walk order and nothing removed; and once the primary manifest is patched
\* the cloned tree's manifest patch, its three builds and its collection are
\* all behind: nothing of them is pending or happens later.
C12_AuxiliaryThenPrimary ==
    /\ pc = "done" /\ repo_path = "repo" =>
         \E a \in WalksOf("repo"), b \in WalksOf("primary") : results = a \o b
    /\ pc = "done" /\ repo_path = "None" => results \in WalksOf("primary")
    /\ PrimaryPatched /\ repo_path = "repo" =>
         /\ Len(patched) = 2 /\ patched[1].tree = "repo" /\ patched[2].tree = "primary"
         /\ \A p \in AuxPhases : calls[p] = 1
         /\ lastInv.phase \in {"examples", "primary"}
         /\ pc \in {"primary", "collect_primary", "done", "raised"}
         /\ \E a \in WalksOf("repo") :
              Len(a) <= Len(results) /\ \A i \in 1..Len(a) : results[i] = a[i]
    /\ ~PrimaryPatched => invs["primary"] = 0 /\ \A i \in 1..Len(results) : results[i].tree = "repo"

C12_Witness ==
    /\ pc = "done" /\ repo_path = "repo"
    /\ \E i, j \in 1..Len(results) :
        i < j /\ results[i].tree = "repo" /\ results[j].tree = "primary"

\* the features of the attempt the last invocation belongs to
AttemptFeatures == Last(attempts).feats

Sentinels == {"nightly", "default"}

\* C13 as stated: --features is there exactly when the attempt's feature list
\* is non-empty, its value is that list, in order, and names neither
\* "nightly" nor "default"
C13_Original ==
    Invoked =>
        /\ lastInv.args.hasFeatures <=> AttemptFeatures # <<>>
        /\ lastInv.args.hasFeatures => lastInv.args.featureArg = AttemptFeatures
        /\ Range(lastInv.args.featureArg) \cap Sentinels = {}

\* C13: in every build-tool invocation --features is present exactly when the
\* attempt's feature list is non-empty; its value names the attempt's features
\* other than "nightly" and "default", in their original order (no name at
\* all when the list holds nothing else), and so never names either of them.
C13_FeaturesArgument ==
    Invoked =>
        LET f    == AttemptFeatures
            kept == {i \in 1..Len(f) : f[i] \notin Sentinels}
            v    == lastInv.args.featureArg
        IN  /\ lastInv.args.hasFeatures <=> f # <<>>
            /\ \A i \in 1..Len(v) : v[i] \notin Sentinels
            /\ Len(v) = Cardinality(kept)
            /\ \A i \in 1..Len(v) :
                 \E k \in kept : v[i] = f[k] /\ Cardinality({j \in kept : j < k}) = i - 1
            /\ ~lastInv.args.hasFeatures => v = <<>>

C13_Witness ==
    /\ Invoked /\ lastInv.args.hasFeatures
    /\ AttemptFeatures = <<"x", "nightly", "y">>
    /\ lastInv.args.featureArg = <<"x", "y">>

\* the --tests / --benches / --examples word of the last invocation
TargetWord == lastInv.args.argv[6]

\* C14: with a source tree obtained, the tests, the benches and the examples
\* are built by three _cargo_build calls, one each and in that order; every
\* one of them starts from the whole normalized feature list, whatever the
\* calls before it dropped, and the next one is started whether the one
\* before it succeeded or failed.
C14_ThreeAuxiliaryCalls ==
    /\ \A p \in AuxPhases : calls[p] <= 1
    /\ calls["benches"] = 1 => calls["tests"] = 1 /\ pc # "tests"
    /\ calls["examples"] = 1 => calls["benches"] = 1 /\ pc # "benches"
    /\ repo_path = "repo" /\ pc \in {"collect_repo", "patch_primary", "primary",
                                     "collect_primary", "done"}
         => \A p \in AuxPhases : calls[p] = 1
    /\ pc = "benches" => calls["tests"] = 1 /\ (calls["benches"] = 1 <=> inCall)
    /\ pc = "examples" => calls["benches"] = 1 /\ (calls["examples"] = 1 <=> inCall)
    /\ Invoked /\ lastInv.phase \in AuxPhases =>
         /\ attempts[1].feats = features
         /\ lastInv.cwd = "repo"
         /\ TargetWord = "--" \o lastInv.phase
         /\ calls[lastInv.phase] = 1
    /\ pc \in AuxPhases => repo_path = "repo"

C14_Witness ==
    /\ lastInv.phase = "examples" /\ inCall /\ Len(attempts) = 1
    /\ Len(features) = 2 /\ attempts[1].feats = features
    /\ ret = [code |-> 101, by |-> 3]

\* the templates setup_toml was given for the cloned tree and for the primary
AuxTemplatesUsed == {patched[i].template : i \in {j \in 1..Len(patched) : patched[j].tree = "repo"}}

PrimaryTemplatesUsed ==
    {patched[i].template : i \in {j \in 1..Len(patched) : patched[j].tree = "primary"}}

\* C15: the template the cloned tree's manifest is patched with never has a
\* 'lib' key, whatever ctx.template holds under 'lib'; and when ctx.lib is set
\* the template the primary manifest is patched with has 'lib' equal to
\* {"crate-type": ["cdylib"]}.
C15_Claim ==
    /\ \A t \in AuxTemplatesUsed : kLib \notin DOMAIN t
    /\ ctxLib => \A t \in PrimaryTemplatesUsed : kLib \in DOMAIN t /\ t[kLib] = LibDirective

\* C16: the environment handed to the build tool is the process environment
\* with every key of the additional_env argument set to the argument's value
\* and nothing else changed (unchanged when the argument is empty or None).
C16_Claim ==
    Invoked =>
        /\ \A k \in DOMAIN additional_env :
             k \in DOMAIN lastInv.env /\ lastInv.env[k] = additional_env[k]
        /\ \A k \in DOMAIN lastInv.env \ DOMAIN additional_env :
             k \in DOMAIN OsEnviron /\ lastInv.env[k] = OsEnviron[k]
        /\ DOMAIN OsEnviron \subseteq DOMAIN lastInv.env

\* the artifacts below <target>/<top>/<profile>, in walk order
ProfileWalk(tree, top, profile) ==
    LET found == Walk(fs[tree], << <<"target">>, top, <<profile>> >>)
    IN  [i \in 1..Len(found) |-> [tree |-> tree, path |-> found[i]]]

\* C17: _get_result_files(project_path, profile) with a profile given and a
\* matching entry under target/ does not raise: it returns the artifacts
\* found below the profile subdirectory of that entry, and only those.
C17_Claim ==
    DirectCollectRan /\ argProfile # "None" /\ TripleEntries(fs[argTree]) # {} =>
        /\ pc = "done"
        /\ \E top \in TripleEntries(fs[argTree]) : results = ProfileWalk(argTree, top, argProfile)

SetupRepoReturned == entry = "_setup_repo" /\ pc = "done"

\* the positions of the scanned tags whose name is one of the six candidates
CandidateHits ==
    {i \in 1..Len(tags) :
        tags[i] \in { CrateName \o "-" \o CrateVersion, CrateName \o "-v" \o CrateVersion,
                      CrateName \o "_" \o CrateVersion, CrateName \o "_v" \o CrateVersion,
                      CrateVersion, "v" \o CrateVersion }}

\* C18: when _setup_repo returns a path, the tag it checked out is the last
\* of the scanned tags whose name is one of the six candidate names; when no
\* scanned tag matches nothing is checked out, and the path is returned all the
\* same.  A 404 probe returns no path and checks nothing out.
C18_LastMatchingTag ==
    /\ SetupRepoReturned /\ status # 404 =>
         /\ repo_path = "repo"
         /\ CandidateHits = {} => checkedOut = ""
         /\ CandidateHits # {} =>
              \E i \in CandidateHits :
                  /\ checkedOut = tags[i]
                  /\ \A j \in CandidateHits : j <= i
    /\ SetupRepoReturned /\ status = 404 => repo_path = "None" /\ checkedOut = ""
    /\ entry = "_setup_repo" /\ pc # "done" => checkedOut = ""

C18_Witness ==
    /\ SetupRepoReturned /\ Cardinality(CandidateHits) = 2
    /\ checkedOut = tags[2] /\ tags[2] = CrateName \o "_v" \o CrateVersion

\* the probe was not 404 and the clone was tried and failed
CloneFailed == entry = "_setup_repo" /\ status # 404 /\ cloned = 1 /\ ~cloneOk

\* C19 as stated: after a failed clone _setup_repo never fails, it returns
\* the path
C19_Original == CloneFailed => pc = "done" /\ repo_path = "repo"

\* C19: when the probe is not 404 and the clone fails, the failure itself is
\* absorbed and the local copy at the per-package directory is opened: if
\* there is one, tag matching goes on and the path is returned; if there is
\* none, opening it raises and _setup_repo fails without returning a path.
C19_FallbackToLocalCopy ==
    /\ CloneFailed /\ repoOnDisk =>
         /\ pc = "done" /\ repo_path = "repo" /\ raisedAt = ""
         /\ CandidateHits # {} => checkedOut \in {tags[i] : i \in CandidateHits}
    /\ CloneFailed /\ ~repoOnDisk =>
         pc = "raised" /\ raisedAt = "setup_repo" /\ repo_path = "None" /\ checkedOut = ""

C19_Witness ==
    /\ CloneFailed /\ repoOnDisk /\ pc = "done" /\ repo_path = "repo"
    /\ checkedOut = "v" \o CrateVersion

\* N: the length of the normalized feature list, 1 when "full" is in it
NormalizedLen == IF HasFull THEN 1 ELSE Len(crateFeatures)

TotalInvocations == invs["tests"] + invs["benches"] + invs["examples"] + invs["primary"]

\* C20: with N the length of the normalized feature list, one compile_crate
\* call makes at most N + 1 build-tool invocations when no source tree is
\* obtained and at most 4 * (N + 1) when one is, no phase more than N + 1; a
\* call that completes has made at least 1 and at least 4 of them; and every
\* invocation of the primary build comes after all the auxiliary ones.
C20_InvocationBounds ==
    /\ entry = "compile_crate"
    /\ \A p \in Phases : invs[p] <= NormalizedLen + 1
    /\ repo_path = "None" => TotalInvocations <= NormalizedLen + 1
                             /\ TotalInvocations = invs["primary"]
    /\ TotalInvocations <= 4 * (NormalizedLen + 1)
    /\ pc = "done" /\ repo_path = "None" => TotalInvocations >= 1
    /\ pc = "done" /\ repo_path = "repo" =>
         TotalInvocations >= 4 /\ \A p \in Phases : invs[p] >= 1
    /\ invs["primary"] >= 1 =>
         /\ lastInv.phase = "primary"
         /\ pc \in {"primary", "collect_primary", "done", "raised"}
         /\ repo_path = "repo" => \A p \in AuxPhases : calls[p] = 1 /\ invs[p] >= 1

C20_Witness ==
    /\ pc = "done" /\ repo_path = "repo"
    /\ NormalizedLen = 2
    /\ TotalInvocations = 4 * (NormalizedLen + 1)

====
